---- MODULE Spec2Model ----
(***************************************************************************)
(* Batch (columnar) bitmap functions of                                    *)
(* be/src/exprs/vectorized/bitmap_functions.cpp.                           *)
(*                                                                         *)
(* One invocation of a function is a run of the state machine: the         *)
(* function is entered with its input columns, its row loop(s) advance one *)
(* row per step, and the output column is built at the end (or the         *)
(* invocation dies with a std::runtime_error).  A finished invocation may  *)
(* feed its output column to the next function of an expression.           *)
(***************************************************************************)
EXTENDS Integers, Sequences, FiniteSets, TLC

VARIABLES fn, columns, pc, row, builder, result, ctx_error,
          data_size, offset, array_elems, array_offsets,
          bits, p, last_len, origin, saved

vars == <<fn, columns, pc, row, builder, result, ctx_error,
          data_size, offset, array_elems, array_offsets,
          bits, p, last_len, origin, saved>>

----------------------------------------------------------------------------
(* Bounds of the model *)

\* rows per input column (a chunk)
MaxRows == 2

\* width in bits of the model's uint64_t / int64_t
WordBits == 5

\* config::max_length_for_bitmap_function, the configured limit
max_length_for_bitmap_function == 2

\* the model's INT32_MAX, the longest text bitmap_from_string accepts; large
\* enough for the text of any bitmap within max_length_for_bitmap_function
INT32_MAX == 8

----------------------------------------------------------------------------
(* Machine integers *)

RECURSIVE Pow2(_)
Pow2(n) == IF n = 0 THEN 1 ELSE 2 * Pow2(n - 1)

UINT64_MAX == Pow2(WordBits) - 1
INT64_MAX == Pow2(WordBits - 1) - 1

\* implicit conversion int64_t -> uint64_t
ToUint64(i) == i % Pow2(WordBits)

\* implicit conversion uint64_t -> int64_t
ToInt64(u) == IF u > INT64_MAX THEN u - Pow2(WordBits) ELSE u

Min(S) == CHOOSE x \in S : \A y \in S : x <= y

----------------------------------------------------------------------------
(* Text: a sequence of one-character strings *)

Digits == <<"0", "1", "2", "3", "4", "5", "6", "7", "8", "9">>

IsDigit(c) == \E d \in 1..10 : Digits[d] = c

DigitVal(c) == (CHOOSE d \in 1..10 : Digits[d] = c) - 1

RECURSIVE ToDecimal(_)
ToDecimal(n) ==
    IF n < 10 THEN <<Digits[n + 1]>>
    ELSE ToDecimal(n \div 10) \o <<Digits[(n % 10) + 1]>>

\* Decimal digits to an unsigned integer of the machine's width: fails on an
\* empty text, on a character that is no digit, and on overflow.
RECURSIVE ParseDigits(_, _)
ParseDigits(text, acc) ==
    IF text = <<>> THEN [ok |-> TRUE, value |-> acc]
    ELSE IF ~IsDigit(Head(text)) THEN [ok |-> FALSE, value |-> 0]
    ELSE LET next == acc * 10 + DigitVal(Head(text))
         IN  IF next > UINT64_MAX THEN [ok |-> FALSE, value |-> 0]
             ELSE ParseDigits(Tail(text), next)

\* StringParser::string_to_unsigned_int<uint64_t>(data, size, &parse_result)
string_to_unsigned_int(text) ==
    IF text = <<>> THEN [ok |-> FALSE, value |-> 0] ELSE ParseDigits(text, 0)

\* safe_strtou64(str, &value)
safe_strtou64(text) ==
    IF text = <<>> THEN [ok |-> FALSE, value |-> 0] ELSE ParseDigits(text, 0)

\* strings::Split(source, ","): the pieces between the commas, empty ones too
RECURSIVE Split(_, _)
Split(text, piece) ==
    IF text = <<>> THEN <<piece>>
    ELSE IF Head(text) = "," THEN <<piece>> \o Split(Tail(text), <<>>)
    ELSE Split(Tail(text), Append(piece, Head(text)))

\* strings::SkipEmpty(): the non-empty pieces
Fields(text) == SelectSeq(Split(text, <<>>), LAMBDA f : f # <<>>)

\* SplitStringAndParse(source, ",", &safe_strtou64, &bits): parses the fields
\* in order, appending each value to bits, and stops at the first failure.
RECURSIVE ParseFields(_, _)
ParseFields(fields, out) ==
    IF fields = <<>> THEN [ok |-> TRUE, bits |-> out]
    ELSE LET r == safe_strtou64(Head(fields))
         IN  IF ~r.ok THEN [ok |-> FALSE, bits |-> out]
             ELSE ParseFields(Tail(fields), Append(out, r.value))

SplitStringAndParse(text, out) == ParseFields(Fields(text), out)

----------------------------------------------------------------------------
(* BitmapValue: a set of unsigned 64-bit integers *)

BitmapOr(b, x) == b \cup x                        \* operator|=

BitmapAnd(b, x) == b \cap x                       \* operator&=

BitmapSub(b, x) == b \ x                          \* operator-=

BitmapXor(b, x) == (b \ x) \cup (x \ b)           \* operator^=

BitmapAdd(b, v) == b \cup {v}                     \* add(uint64_t)

BitmapRemove(b, v) == b \ {v}                     \* remove(uint64_t)

BitmapFromVector(v) == {v[i] : i \in 1..Len(v)}   \* BitmapValue(const std::vector<uint64_t>&)

\* to_array(std::vector<int64_t>*): the members in ascending order, each
\* stored as int64_t
RECURSIVE BitmapToArray(_)
BitmapToArray(b) ==
    IF b = {} THEN <<>>
    ELSE <<ToInt64(Min(b))>> \o BitmapToArray(b \ {Min(b)})

\* to_string(): the members in ascending order, in decimal, joined by commas
RECURSIVE BitmapToString(_)
BitmapToString(b) ==
    IF b = {} THEN <<>>
    ELSE IF Cardinality(b) = 1 THEN ToDecimal(Min(b))
    ELSE ToDecimal(Min(b)) \o <<",">> \o BitmapToString(b \ {Min(b)})

\* the members left after the skip smallest ones are passed over, at most len
\* of them, taken in ascending order
RECURSIVE TakeAscending(_, _, _)
TakeAscending(b, skip, len) ==
    IF b = {} \/ len <= 0 THEN {}
    ELSE IF skip > 0 THEN TakeAscending(b \ {Min(b)}, skip - 1, len)
    ELSE {Min(b)} \cup TakeAscending(b \ {Min(b)}, 0, len - 1)

\* BitmapValue::sub_bitmap_internal(offset, len, ret_bitmap): the number of
\* members put into ret_bitmap; a negative offset counts from the highest member
sub_bitmap_internal(b, off, len) ==
    LET cardinality == Cardinality(b)
        abs_offset == IF off < 0 THEN cardinality + off ELSE off
    IN  IF (off > 0 /\ off >= cardinality) \/ (off < 0 /\ 0 - off > cardinality)
        THEN [count |-> 0, ret_bitmap |-> {}]
        ELSE [count |-> Cardinality(TakeAscending(b, abs_offset, len)),
              ret_bitmap |-> TakeAscending(b, abs_offset, len)]

----------------------------------------------------------------------------
(* base64 text and the binary bitmap format *)

\* the base64 alphabet; a character decodes to the byte of its position
Base64Chars == <<"A", "B", "C", "D">>

IsBase64Char(c) == \E k \in 1..Len(Base64Chars) : Base64Chars[k] = c

Base64Val(c) == (CHOOSE k \in 1..Len(Base64Chars) : Base64Chars[k] = c) - 1

\* base64_decode2(data, size, out): the number of bytes written to out, or a
\* negative number when the text is not base64
base64_decode2(text) ==
    IF \E k \in 1..Len(text) : ~IsBase64Char(text[k])
    THEN [res |-> 0 - 1, bytes |-> <<>>]
    ELSE [res |-> Len(text), bytes |-> [k \in 1..Len(text) |-> Base64Val(text[k])]]

\* the values a byte of uninitialized memory may read as
Bytes == 0..(Len(Base64Chars) - 1)

\* the bytes a row's decoding leaves in the scratch buffer: the decoded bytes,
\* then what an earlier row left behind them
BufferAfterDecode(buf, bytes) ==
    IF Len(buf) > Len(bytes)
    THEN bytes \o SubSeq(buf, Len(bytes) + 1, Len(buf))
    ELSE bytes

\* the byte at position k of the buffer; past the bytes written so far the
\* memory is uninitialized and reads as any value
BufferByte(buf, k, garbage) == IF k <= Len(buf) THEN buf[k] ELSE garbage

\* BitmapValue::deserialize(const char* src): a type byte (0: EMPTY,
\* 1: SINGLE followed by its value); any other type byte fails and leaves the
\* bitmap empty.  It is given no length: it reads what the format asks for.
BitmapDeserialize(buf, garbage) ==
    LET type == BufferByte(buf, 1, garbage)
    IN  IF type = 0 THEN [ok |-> TRUE, bitmap |-> {}]
        ELSE IF type = 1 THEN [ok |-> TRUE, bitmap |-> {BufferByte(buf, 2, garbage)}]
        ELSE [ok |-> FALSE, bitmap |-> {}]

----------------------------------------------------------------------------
(* Columns *)

\* a row of a nullable column: the null flag and the value of the data column
Cell(v) == [null |-> FALSE, val |-> v]

NullBitmap == [null |-> TRUE, val |-> {}]         \* append_null() of a TYPE_OBJECT builder

NullText == [null |-> TRUE, val |-> <<>>]         \* append_null() of a TYPE_VARCHAR builder

NullInt == [null |-> TRUE, val |-> 0]

\* a column of one value per row
Column(rows) == [kind |-> "column", rows |-> rows]

\* ColumnHelper::create_const_null_column(size)
create_const_null_column(size) ==
    [kind |-> "const_null", rows |-> [i \in 1..size |-> NullBitmap]]

\* ColumnHelper::create_const_column(value, size): one value for every row
create_const_column(cell, size) ==
    [kind |-> "const", rows |-> [i \in 1..size |-> cell]]

\* ArrayColumn (nullable elements) under an optional null mask
ArrayColumn(elements, offsets, has_mask, nulls) ==
    [kind |-> "array", elements |-> elements, offsets |-> offsets,
     has_mask |-> has_mask, nulls |-> nulls]

NoColumn == [kind |-> "none"]

\* Column::size()
ColSize(c) == IF c.kind = "array" THEN Len(c.offsets) - 1 ELSE Len(c.rows)

\* ColumnViewer::is_null(row)
is_null(c, i) == IF c.kind = "array" THEN c.has_mask /\ c.nulls[i] ELSE c.rows[i].null

\* Column::has_null()
has_null(c) == \E i \in 1..ColSize(c) : is_null(c, i)

\* Column::only_null(): the column is entirely null
only_null(c) ==
    \/ c.kind = "const_null"
    \/ ColSize(c) > 0 /\ \A i \in 1..ColSize(c) : is_null(c, i)

\* Column::is_constant(): the column is flagged constant
is_constant(c) == c.kind \in {"const", "const_null"}

\* ColumnHelper::is_all_const(columns)
is_all_const(cols) == \A k \in 1..Len(cols) : is_constant(cols[k])

\* ColumnBuilder::build(is_const): a constant column holds the one value of
\* its first row for every row
build(rows, is_const) ==
    IF is_const /\ Len(rows) > 0
    THEN [kind |-> "const", rows |-> [i \in 1..Len(rows) |-> rows[1]]]
    ELSE Column(rows)

\* RETURN_IF_COLUMNS_ONLY_NULL(columns)
ColumnsOnlyNull(cols) == \E k \in 1..Len(cols) : only_null(cols[k])

----------------------------------------------------------------------------
(* The loop body of each function: the output row for one input row *)

\* to_bitmap without the test of parse_result: the value of a failed parse is added
to_bitmap_row_unchecked(c) ==
    IF c.null THEN [cell |-> NullBitmap, errors |-> {}]
    ELSE [cell |-> Cell(BitmapAdd({}, string_to_unsigned_int(c.val).value)),
          errors |-> {}]

\* to_bitmap, lines 28-52: the output row and the diagnostics set_error records
to_bitmap_row(c) ==
    IF c.null THEN [cell |-> NullBitmap, errors |-> {}]
    ELSE LET parsed == string_to_unsigned_int(c.val)
         IN  IF ~parsed.ok
             THEN [cell |-> NullBitmap, errors |-> {c.val}]
             ELSE [cell |-> Cell(BitmapAdd({}, parsed.value)), errors |-> {}]

bitmap_or_row(l, r) ==
    IF l.null \/ r.null THEN NullBitmap
    ELSE Cell(BitmapOr(BitmapOr({}, l.val), r.val))

bitmap_and_row(l, r) ==
    IF l.null \/ r.null THEN NullBitmap
    ELSE Cell(BitmapAnd(BitmapOr({}, l.val), r.val))

bitmap_andnot_row(l, r) ==
    IF l.null \/ r.null THEN NullBitmap
    ELSE Cell(BitmapSub(BitmapOr({}, l.val), r.val))

\* bitmap_xor with the null test of line 244 written with && for ||
bitmap_xor_row_and_for_or(l, r) ==
    IF l.null /\ r.null THEN NullBitmap
    ELSE Cell(BitmapXor(BitmapOr({}, l.val), r.val))

bitmap_xor_row(l, r) ==
    IF l.null \/ r.null THEN NullBitmap
    ELSE Cell(BitmapXor(BitmapOr({}, l.val), r.val))

\* rhs is a TYPE_BIGINT (int64_t) value handed to remove(uint64_t)
bitmap_remove_row(l, r) ==
    IF l.null \/ r.null THEN NullBitmap
    ELSE Cell(BitmapRemove(BitmapOr({}, l.val), ToUint64(r.val)))

\* bitmapHasAny with |= for the &= of line 202
bitmapHasAny_or_for_and(lhs, rhs) == Cardinality(BitmapOr(BitmapOr({}, lhs), rhs)) # 0

\* bitmapHasAny(lhs, rhs)
bitmapHasAny(lhs, rhs) == Cardinality(BitmapAnd(BitmapOr({}, lhs), rhs)) # 0

\* VectorizedStrictBinaryFunction<bitmapHasAny>: null when either side is null
bitmap_has_any_row(l, r) ==
    IF l.null \/ r.null THEN [null |-> TRUE, val |-> FALSE]
    ELSE Cell(bitmapHasAny(l.val, r.val))

\* bitmap_count with a null row for a null row
bitmap_count_row_null_for_null(c) ==
    IF c.null THEN NullInt ELSE Cell(Cardinality(c.val))

bitmap_count_row(c) == Cell(IF c.null THEN 0 ELSE Cardinality(c.val))

\* HashUtil::murmur_hash3_32(data, size, seed): a fixed function of the bytes
\* into the unsigned 32-bit range, which lies within that of the members
murmur_hash3_32(text) ==
    (Len(text) * 7 + (IF Len(text) > 0 /\ IsDigit(text[1]) THEN DigitVal(text[1]) ELSE 3))
        % Pow2(WordBits - 1)

\* bitmap_hash, lines 64-73
bitmap_hash_row(c) ==
    IF c.null THEN Cell({}) ELSE Cell(BitmapAdd({}, murmur_hash3_32(c.val)))

\* bitmapToStingImpl with >= for the > of line 147
bitmapToStingImpl_off_by_one(bitmap) ==
    IF Cardinality(bitmap) >= max_length_for_bitmap_function
    THEN [throw |-> TRUE, val |-> <<>>]
    ELSE [throw |-> FALSE, val |-> BitmapToString(bitmap)]

\* bitmapToStingImpl(bitmap_ptr): throws std::runtime_error over the limit
bitmapToStingImpl(bitmap) ==
    IF Cardinality(bitmap) > max_length_for_bitmap_function
    THEN [throw |-> TRUE, val |-> <<>>]
    ELSE [throw |-> FALSE, val |-> BitmapToString(bitmap)]

\* bitmap_from_string without the bits.clear() of line 175
bitmap_from_string_row_no_clear(c, bits_in) ==
    IF c.null THEN [cell |-> NullBitmap, bits |-> bits_in]
    ELSE IF Len(c.val) > INT32_MAX THEN [cell |-> NullBitmap, bits |-> bits_in]
    ELSE LET parsed == SplitStringAndParse(c.val, bits_in)
         IN  IF ~parsed.ok THEN [cell |-> NullBitmap, bits |-> parsed.bits]
             ELSE [cell |-> Cell(BitmapFromVector(parsed.bits)), bits |-> parsed.bits]

\* bitmap_from_string with the empty text treated as base64_to_bitmap treats it
bitmap_from_string_row_empty_null(c, bits_in) ==
    IF c.null \/ Len(c.val) = 0 THEN [cell |-> NullBitmap, bits |-> bits_in]
    ELSE IF Len(c.val) > INT32_MAX THEN [cell |-> NullBitmap, bits |-> <<>>]
    ELSE LET parsed == SplitStringAndParse(c.val, <<>>)
         IN  IF ~parsed.ok THEN [cell |-> NullBitmap, bits |-> parsed.bits]
             ELSE [cell |-> Cell(BitmapFromVector(parsed.bits)), bits |-> parsed.bits]

\* bitmap_from_string, lines 168-182: the output row and the bits vector after it
bitmap_from_string_row(c, bits_in) ==
    IF c.null THEN [cell |-> NullBitmap, bits |-> bits_in]
    ELSE IF Len(c.val) > INT32_MAX THEN [cell |-> NullBitmap, bits |-> <<>>]
    ELSE LET parsed == SplitStringAndParse(c.val, <<>>)
         IN  IF ~parsed.ok THEN [cell |-> NullBitmap, bits |-> parsed.bits]
             ELSE [cell |-> Cell(BitmapFromVector(parsed.bits)), bits |-> parsed.bits]

\* detect_bitmap_cardinality with >= for the > of line 284
detect_bitmap_cardinality_off_by_one(size, cardinality) ==
    IF cardinality >= max_length_for_bitmap_function
    THEN [throw |-> TRUE, data_size |-> size]
    ELSE [throw |-> FALSE, data_size |-> size + cardinality]

\* detect_bitmap_cardinality(&data_size, cardinality)
detect_bitmap_cardinality(size, cardinality) ==
    IF cardinality > max_length_for_bitmap_function
    THEN [throw |-> TRUE, data_size |-> size]
    ELSE [throw |-> FALSE, data_size |-> size + cardinality]

\* array_to_bitmap with > 0 for the >= 0 of line 394
array_to_bitmap_row_skips_zero(col, i) ==
    LET off == col.offsets[i]
        length == col.offsets[i + 1] - col.offsets[i]
    IN  IF col.has_mask /\ col.nulls[i] THEN NullBitmap
        ELSE Cell({ToUint64(col.elements[j + 1].val) :
                   j \in {k \in off..(off + length - 1) :
                          /\ ~col.elements[k + 1].null
                          /\ col.elements[k + 1].val > 0}})

\* array_to_bitmap without the test of element_null_data of line 390
array_to_bitmap_row_ignores_element_null(col, i) ==
    LET off == col.offsets[i]
        length == col.offsets[i + 1] - col.offsets[i]
    IN  IF col.has_mask /\ col.nulls[i] THEN NullBitmap
        ELSE Cell({ToUint64(col.elements[j + 1].val) :
                   j \in {k \in off..(off + length - 1) :
                          col.elements[k + 1].val >= 0}})

\* array_to_bitmap, lines 382-399: offsets count from 0, elements from 1
array_to_bitmap_row(col, i) ==
    LET off == col.offsets[i]
        length == col.offsets[i + 1] - col.offsets[i]
    IN  IF col.has_mask /\ col.nulls[i] THEN NullBitmap
        ELSE Cell({ToUint64(col.elements[j + 1].val) :
                   j \in {k \in off..(off + length - 1) :
                          /\ ~col.elements[k + 1].null
                          /\ col.elements[k + 1].val >= 0}})

\* the INT_MIN of line 514
INT_MIN == 0 - INT32_MAX - 1

\* sub_bitmap, lines 492-497, with a default length of one member
len_column_default_one(cols) ==
    IF Len(cols) > 2 THEN cols[3]
    ELSE create_const_column(Cell(1), ColSize(cols[1]))

\* sub_bitmap, lines 492-497: the length column, INT32_MAX when none is given
len_column(cols) ==
    IF Len(cols) > 2 THEN cols[3]
    ELSE create_const_column(Cell(INT32_MAX), ColSize(cols[1]))

\* sub_bitmap without the test of the result of sub_bitmap_internal of line 520
sub_bitmap_row_keeps_empty(b, off, len) ==
    IF b.null \/ off.null \/ len.null \/ len.val <= 0 THEN NullBitmap
    ELSE IF Cardinality(b.val) = 0 \/ off.val = INT_MIN \/ len.val <= 0 THEN NullBitmap
    ELSE Cell(sub_bitmap_internal(b.val, off.val, len.val).ret_bitmap)

\* sub_bitmap, lines 505-525
sub_bitmap_row(b, off, len) ==
    IF b.null \/ off.null \/ len.null \/ len.val <= 0 THEN NullBitmap
    ELSE IF Cardinality(b.val) = 0 \/ off.val = INT_MIN \/ len.val <= 0 THEN NullBitmap
    ELSE IF sub_bitmap_internal(b.val, off.val, len.val).count = 0 THEN NullBitmap
    ELSE Cell(sub_bitmap_internal(b.val, off.val, len.val).ret_bitmap)

\* base64_to_bitmap, lines 455-481: the output row, the scratch buffer and its
\* capacity after the row
base64_to_bitmap_row(c, buf, last, garbage) ==
    IF c.null \/ Len(c.val) = 0
    THEN [cell |-> NullBitmap, p |-> buf, last_len |-> last]
    ELSE LET curr_len == Len(c.val) + 3
             fresh == last < curr_len
             buf1 == IF fresh THEN <<>> ELSE buf
             last1 == IF fresh THEN curr_len ELSE last
             decoded == base64_decode2(c.val)
             buf2 == BufferAfterDecode(buf1, decoded.bytes)
         IN  IF decoded.res < 0
             THEN [cell |-> NullBitmap, p |-> buf2, last_len |-> last1]
             ELSE [cell |-> Cell(BitmapDeserialize(buf2, garbage).bitmap),
                   p |-> buf2, last_len |-> last1]

----------------------------------------------------------------------------
(* The input columns an invocation may be given *)

\* bitmaps: empty, one member, a member above INT64_MAX, exactly at the
\* configured limit, and one over it
Bitmaps ==
    {{}, {1}, {0, UINT64_MAX},
     0..(max_length_for_bitmap_function - 1), 0..max_length_for_bitmap_function}

BitmapCells == {NullBitmap} \cup {Cell(b) : b \in Bitmaps}

\* operands of the binary set functions
OperandCells ==
    {NullBitmap} \cup {Cell(b) : b \in {{}, {0, 1}, {1, UINT64_MAX}, {UINT64_MAX}}}

\* the TYPE_BIGINT operand of bitmap_remove
BigintCells == {NullInt} \cup {Cell(v) : v \in {0, 1, 0 - 1}}

\* texts given to to_bitmap: the range's ends, one past it, a sign, no number
NumberTexts ==
    {<<>>, <<"0">>, ToDecimal(UINT64_MAX), ToDecimal(UINT64_MAX + 1),
     <<"-", "1">>, <<"a", "b", "c">>}

NumberCells == {NullText} \cup {Cell(t) : t \in NumberTexts}

\* a text of valid fields that is one character longer than INT32_MAX
RECURSIVE LongText(_)
LongText(n) == IF n <= 1 THEN <<"1">> ELSE <<"1", ",">> \o LongText(n - 2)

\* texts given to bitmap_from_string
ListTexts ==
    {<<>>, <<"1">>, ToDecimal(UINT64_MAX) \o <<",", "0", ",">> \o ToDecimal(UINT64_MAX),
     <<"1", ",", ",", "0">>, <<"0", ",", "x">>, ToDecimal(UINT64_MAX + 1),
     LongText(INT32_MAX + 1)}

ListCells == {NullText} \cup {Cell(t) : t \in ListTexts}

\* texts given to base64_to_bitmap: EMPTY, SINGLE {2}, SINGLE cut short, an
\* unknown type byte, not base64
Base64Texts == {<<>>, <<"A">>, <<"B", "C">>, <<"B">>, <<"C">>, <<"!">>}

Base64Cells == {NullText} \cup {Cell(t) : t \in Base64Texts}

\* rows given to array_to_bitmap: a null row, a null row over an element, an
\* empty array, an array with a negative and a null element among members, and
\* an array of nothing but a negative and a null element; the value under a
\* null element is whatever the element column holds there
ArrayRows ==
    {[null |-> TRUE, elems |-> <<>>],
     [null |-> TRUE, elems |-> <<Cell(2)>>],
     [null |-> FALSE, elems |-> <<>>],
     [null |-> FALSE,
      elems |-> <<Cell(1), Cell(0 - 1), [null |-> TRUE, val |-> 3], Cell(0)>>],
     [null |-> FALSE, elems |-> <<Cell(0 - 1), [null |-> TRUE, val |-> 3]>>]}

\* the elements of the first n rows, one after the other
RECURSIVE FlatElements(_, _)
FlatElements(rows, n) ==
    IF n = 0 THEN <<>> ELSE FlatElements(rows, n - 1) \o rows[n].elems

\* the array column of a sequence of rows: its offsets are the running lengths,
\* and it carries a null mask when a row is null
ArrayOf(rows) ==
    ArrayColumn(FlatElements(rows, Len(rows)),
                [i \in 1..(Len(rows) + 1) |-> Len(FlatElements(rows, i - 1))],
                \E i \in 1..Len(rows) : rows[i].null,
                [i \in 1..Len(rows) |-> rows[i].null])

ArrayInputs ==
    UNION {{<<ArrayOf(rows)>> : rows \in [1..n -> ArrayRows]} : n \in 0..MaxRows}

\* the columns of n rows over a set of cells
ColumnsOf(cells, n) == {Column(rows) : rows \in [1..n -> cells]}

\* the constant columns of n rows over a set of cells
ConstColumnsOf(cells, n) ==
    {create_const_column(c, n) : c \in IF n > 0 THEN cells ELSE {}}

UnaryInputs(cells) ==
    UNION {{<<c>> : c \in ColumnsOf(cells, n) \cup ConstColumnsOf(cells, n)} :
           n \in 0..MaxRows}

\* both columns plain, both constant, or a constant left of a plain one
BinaryInputs(lcells, rcells) ==
    UNION {{<<l, r>> : l \in ColumnsOf(lcells, n), r \in ColumnsOf(rcells, n)}
           \cup {<<l, r>> : l \in ConstColumnsOf(lcells, n),
                            r \in ColumnsOf(rcells, n) \cup ConstColumnsOf(rcells, n)} :
           n \in 0..MaxRows}

\* the bitmap of the examples of sub_bitmap
OneToFive == Cell(1..5)

\* rows given to sub_bitmap(bitmap, offset): a null bitmap, a null offset, the
\* empty bitmap, the INT_MIN of line 514, an offset one past the last rank, an
\* offset from the lowest member and one from the highest
SubBitmapRows2 ==
    {<<NullBitmap, Cell(1)>>, <<OneToFive, NullInt>>, <<Cell({}), Cell(1)>>,
     <<OneToFive, Cell(INT_MIN)>>, <<OneToFive, Cell(5)>>,
     <<OneToFive, Cell(1)>>, <<OneToFive, Cell(0 - 2)>>}

\* rows given to sub_bitmap(bitmap, offset, length): those above with the
\* length 2, and a null length and the length 0
SubBitmapRows3 ==
    {<<r[1], r[2], Cell(2)>> : r \in SubBitmapRows2}
        \cup {<<OneToFive, Cell(1), NullInt>>, <<OneToFive, Cell(1), Cell(0)>>}

\* the plain columns of a sequence of rows, and the constant columns of one row
ColumnsOfRows(rows, arity) ==
    [k \in 1..arity |-> Column([i \in 1..Len(rows) |-> rows[i][k]])]

ConstColumnsOfRow(r, arity, n) == [k \in 1..arity |-> create_const_column(r[k], n)]

RowInputs(rowset, arity) ==
    UNION {{ColumnsOfRows(rows, arity) : rows \in [1..n -> rowset]}
           \cup {ConstColumnsOfRow(r, arity, n) : r \in IF n > 0 THEN rowset ELSE {}} :
           n \in 0..MaxRows}

SubBitmapInputs == RowInputs(SubBitmapRows2, 2) \cup RowInputs(SubBitmapRows3, 3)

SetFunctions == {"bitmap_or", "bitmap_and", "bitmap_xor", "bitmap_andnot"}

BinaryFunctions == SetFunctions \cup {"bitmap_remove"}

\* the functions that begin with RETURN_IF_COLUMNS_ONLY_NULL
OnlyNullGuarded ==
    BinaryFunctions \cup {"bitmap_from_string", "array_to_bitmap", "sub_bitmap"}

\* the functions whose single loop appends to a ColumnBuilder
BuilderFunctions ==
    BinaryFunctions \cup
    {"to_bitmap", "bitmap_count", "bitmap_has_any", "bitmap_to_string",
     "bitmap_from_string", "array_to_bitmap", "base64_to_bitmap", "sub_bitmap",
     "bitmap_hash"}

Inputs(f) ==
    CASE f \in SetFunctions -> BinaryInputs(OperandCells, OperandCells)
      [] f = "bitmap_remove" -> BinaryInputs(OperandCells, BigintCells)
      [] f \in {"to_bitmap", "bitmap_hash"} -> UnaryInputs(NumberCells)
      [] f = "bitmap_from_string" -> UnaryInputs(ListCells)
      [] f = "base64_to_bitmap" -> UnaryInputs(Base64Cells)
      [] f = "array_to_bitmap" -> ArrayInputs
      [] f = "sub_bitmap" -> SubBitmapInputs
      [] f = "bitmap_empty" -> {<<>>}
      [] OTHER -> UnaryInputs(BitmapCells)

EntryFunctions ==
    BinaryFunctions \cup
    {"to_bitmap", "bitmap_to_string", "bitmap_from_string", "bitmap_to_array",
     "base64_to_bitmap", "array_to_bitmap", "sub_bitmap", "bitmap_hash",
     "bitmap_count", "bitmap_empty"}

----------------------------------------------------------------------------
(* The state machine *)

Size == ColSize(columns[1])

\* the state of an invocation on entry
Enter(f, cols) ==
    /\ fn' = f
    /\ columns' = cols
    /\ pc' = "entry"
    /\ row' = 1
    /\ builder' = <<>>
    /\ result' = NoColumn
    /\ ctx_error' = {}
    /\ data_size' = 0
    /\ offset' = 0
    /\ array_elems' = <<>>
    /\ array_offsets' = <<>>
    /\ bits' = <<>>
    /\ p' = <<>>
    /\ last_len' = 0

Init ==
    /\ fn \in EntryFunctions
    /\ columns \in Inputs(fn)
    /\ pc = "entry"
    /\ row = 1
    /\ builder = <<>>
    /\ result = NoColumn
    /\ ctx_error = {}
    /\ data_size = 0
    /\ offset = 0
    /\ array_elems = <<>>
    /\ array_offsets = <<>>
    /\ bits = <<>>
    /\ p = <<>>
    /\ last_len = 0
    /\ origin = <<>>
    /\ saved = NoColumn

\* RETURN_IF_COLUMNS_ONLY_NULL(columns)
ReturnIfColumnsOnlyNull ==
    /\ pc = "entry"
    /\ fn \in OnlyNullGuarded
    /\ ColumnsOnlyNull(columns)
    /\ result' = create_const_null_column(Size)
    /\ pc' = "done"
    /\ UNCHANGED <<fn, columns, row, builder, ctx_error, data_size, offset,
                   array_elems, array_offsets, bits, p, last_len, origin, saved>>

\* the viewers, the builder and the locals are set up; the first loop begins
BeginLoop ==
    /\ pc = "entry"
    /\ fn # "bitmap_empty"
    /\ ~(fn \in OnlyNullGuarded /\ ColumnsOnlyNull(columns))
    /\ pc' = IF fn = "bitmap_to_array" THEN "count" ELSE "loop"
    /\ UNCHANGED <<fn, columns, row, builder, result, ctx_error, data_size, offset,
                   array_elems, array_offsets, bits, p, last_len, origin, saved>>

\* one iteration of a loop that appends one row and touches nothing else
AppendRow(f, cell) ==
    /\ fn = f
    /\ pc = "loop"
    /\ row <= Size
    /\ builder' = Append(builder, cell)
    /\ row' = row + 1
    /\ UNCHANGED <<fn, columns, pc, result, data_size, offset,
                   array_elems, array_offsets, origin, saved>>

Lhs == columns[1].rows[row]

Rhs == columns[2].rows[row]

to_bitmap ==
    /\ AppendRow("to_bitmap", to_bitmap_row(Lhs).cell)
    /\ ctx_error' = ctx_error \cup to_bitmap_row(Lhs).errors
    /\ UNCHANGED <<bits, p, last_len>>

bitmap_count ==
    /\ AppendRow("bitmap_count", bitmap_count_row(Lhs))
    /\ UNCHANGED <<ctx_error, bits, p, last_len>>

bitmap_hash ==
    /\ AppendRow("bitmap_hash", bitmap_hash_row(Lhs))
    /\ UNCHANGED <<ctx_error, bits, p, last_len>>

bitmap_or ==
    /\ AppendRow("bitmap_or", bitmap_or_row(Lhs, Rhs))
    /\ UNCHANGED <<ctx_error, bits, p, last_len>>

bitmap_and ==
    /\ AppendRow("bitmap_and", bitmap_and_row(Lhs, Rhs))
    /\ UNCHANGED <<ctx_error, bits, p, last_len>>

bitmap_andnot ==
    /\ AppendRow("bitmap_andnot", bitmap_andnot_row(Lhs, Rhs))
    /\ UNCHANGED <<ctx_error, bits, p, last_len>>

bitmap_xor ==
    /\ AppendRow("bitmap_xor", bitmap_xor_row(Lhs, Rhs))
    /\ UNCHANGED <<ctx_error, bits, p, last_len>>

bitmap_remove ==
    /\ AppendRow("bitmap_remove", bitmap_remove_row(Lhs, Rhs))
    /\ UNCHANGED <<ctx_error, bits, p, last_len>>

bitmap_has_any ==
    /\ AppendRow("bitmap_has_any", bitmap_has_any_row(Lhs, Rhs))
    /\ UNCHANGED <<ctx_error, bits, p, last_len>>

\* VectorizedStringStrictUnaryFunction<bitmapToStingImpl>: a null row gives a
\* null row; the exception of a row ends the invocation
bitmap_to_string ==
    /\ fn = "bitmap_to_string"
    /\ pc = "loop"
    /\ row <= Size
    /\ IF Lhs.null
       THEN /\ builder' = Append(builder, NullText)
            /\ row' = row + 1
            /\ pc' = pc
       ELSE IF bitmapToStingImpl(Lhs.val).throw
       THEN /\ pc' = "fatal"
            /\ UNCHANGED <<builder, row>>
       ELSE /\ builder' = Append(builder, Cell(bitmapToStingImpl(Lhs.val).val))
            /\ row' = row + 1
            /\ pc' = pc
    /\ UNCHANGED <<fn, columns, result, ctx_error, data_size, offset,
                   array_elems, array_offsets, bits, p, last_len, origin, saved>>

bitmap_from_string ==
    /\ AppendRow("bitmap_from_string", bitmap_from_string_row(Lhs, bits).cell)
    /\ bits' = bitmap_from_string_row(Lhs, bits).bits
    /\ UNCHANGED <<ctx_error, p, last_len>>

base64_to_bitmap ==
    \E garbage \in Bytes :
        LET r == base64_to_bitmap_row(Lhs, p, last_len, garbage)
        IN  /\ AppendRow("base64_to_bitmap", r.cell)
            /\ p' = r.p
            /\ last_len' = r.last_len
            /\ UNCHANGED <<ctx_error, bits>>

array_to_bitmap ==
    /\ AppendRow("array_to_bitmap", array_to_bitmap_row(columns[1], row))
    /\ UNCHANGED <<ctx_error, bits, p, last_len>>

sub_bitmap ==
    /\ AppendRow("sub_bitmap", sub_bitmap_row(Lhs, Rhs, len_column(columns).rows[row]))
    /\ UNCHANGED <<ctx_error, bits, p, last_len>>

\* bitmap_empty, lines 92-95: the columns are not looked at
bitmap_empty ==
    /\ fn = "bitmap_empty"
    /\ pc = "entry"
    /\ result' = create_const_column(Cell({}), 1)
    /\ pc' = "done"
    /\ UNCHANGED <<fn, columns, row, builder, ctx_error, data_size, offset,
                   array_elems, array_offsets, bits, p, last_len, origin, saved>>

\* builder.build(ColumnHelper::is_all_const(columns))
Build ==
    /\ fn \in BuilderFunctions
    /\ pc = "loop"
    /\ row > Size
    /\ result' = build(builder, is_all_const(columns))
    /\ pc' = "done"
    /\ UNCHANGED <<fn, columns, row, builder, ctx_error, data_size, offset,
                   array_elems, array_offsets, bits, p, last_len, origin, saved>>

\* bitmap_to_array, lines 303-315: the pass that counts the elements
bitmap_to_array_count ==
    /\ fn = "bitmap_to_array"
    /\ pc = "count"
    /\ row <= Size
    /\ IF has_null(columns[1]) /\ is_null(columns[1], row)
       THEN /\ row' = row + 1
            /\ UNCHANGED <<pc, data_size>>
       ELSE LET d == detect_bitmap_cardinality(data_size, Cardinality(Lhs.val))
            IN  IF d.throw
                THEN /\ pc' = "fatal"
                     /\ UNCHANGED <<row, data_size>>
                ELSE /\ data_size' = d.data_size
                     /\ row' = row + 1
                     /\ pc' = pc
    /\ UNCHANGED <<fn, columns, builder, result, ctx_error, offset,
                   array_elems, array_offsets, bits, p, last_len, origin, saved>>

\* lines 317-320: the element buffer is reserved, the second pass begins
bitmap_to_array_reserve ==
    /\ fn = "bitmap_to_array"
    /\ pc = "count"
    /\ row > Size
    /\ pc' = "fill"
    /\ row' = 1
    /\ offset' = 0
    /\ UNCHANGED <<fn, columns, builder, result, ctx_error, data_size,
                   array_elems, array_offsets, bits, p, last_len, origin, saved>>

\* the second pass with the continue of line 325 taken before the offset of a
\* null row is appended
bitmap_to_array_fill_null_row_no_offset ==
    /\ fn = "bitmap_to_array"
    /\ pc = "fill"
    /\ row <= Size
    /\ IF has_null(columns[1]) /\ is_null(columns[1], row)
       THEN UNCHANGED <<array_offsets, array_elems, offset>>
       ELSE /\ array_offsets' = Append(array_offsets, offset)
            /\ array_elems' = array_elems \o BitmapToArray(Lhs.val)
            /\ offset' = offset + Cardinality(Lhs.val)
    /\ row' = row + 1
    /\ UNCHANGED <<fn, columns, pc, builder, result, ctx_error, data_size,
                   bits, p, last_len, origin, saved>>

\* lines 321-339: the pass that writes the offsets and the elements
bitmap_to_array_fill ==
    /\ fn = "bitmap_to_array"
    /\ pc = "fill"
    /\ row <= Size
    /\ array_offsets' = Append(array_offsets, offset)
    /\ IF has_null(columns[1]) /\ is_null(columns[1], row)
       THEN UNCHANGED <<array_elems, offset>>
       ELSE /\ array_elems' = array_elems \o BitmapToArray(Lhs.val)
            /\ offset' = offset + Cardinality(Lhs.val)
    /\ row' = row + 1
    /\ UNCHANGED <<fn, columns, pc, builder, result, ctx_error, data_size,
                   bits, p, last_len, origin, saved>>

\* the elements column: NullableColumn(array_bigint_column, NullColumn(offset, 0))
ElementsColumn(elems) == [j \in 1..Len(elems) |-> Cell(elems[j])]

\* lines 340-353: the last offset and the output column
bitmap_to_array_build ==
    /\ fn = "bitmap_to_array"
    /\ pc = "fill"
    /\ row > Size
    /\ array_offsets' = Append(array_offsets, offset)
    /\ result' =
         IF ~has_null(columns[1])
         THEN ArrayColumn(ElementsColumn(array_elems), array_offsets', FALSE, <<>>)
         ELSE IF only_null(columns[1])
         THEN create_const_null_column(Size)
         ELSE ArrayColumn(ElementsColumn(array_elems), array_offsets', TRUE,
                          [i \in 1..Size |-> columns[1].rows[i].null])
    /\ pc' = "done"
    /\ UNCHANGED <<fn, columns, row, builder, ctx_error, data_size, offset,
                   array_elems, bits, p, last_len, origin, saved>>

\* The output column of a finished function is the input of the next function
\* of the expression: array_to_bitmap(bitmap_to_array(c)),
\* bitmap_from_string(bitmap_to_string(c)), bitmap_count(bitmap_and(a, b)),
\* bitmap_count(bitmap_hash(c)); and
\* bitmap_has_any(a, b) is evaluated on the columns bitmap_and was given, and
\* sub_bitmap(b, offset, 2147483647) on the columns sub_bitmap(b, offset) was.
Compose ==
    /\ pc = "done"
    /\ \/ /\ fn = "bitmap_to_array"
          /\ Enter("array_to_bitmap", <<result>>)
          /\ origin' = columns
          /\ saved' = saved
       \/ /\ fn = "bitmap_to_string"
          /\ Enter("bitmap_from_string", <<result>>)
          /\ origin' = columns
          /\ saved' = saved
       \/ /\ fn = "bitmap_and"
          /\ Enter("bitmap_count", <<result>>)
          /\ origin' = columns
          /\ saved' = saved
       \/ /\ fn = "bitmap_hash"
          /\ Enter("bitmap_count", <<result>>)
          /\ origin' = columns
          /\ saved' = saved
       \/ /\ fn = "bitmap_count"
          /\ Len(origin) = 2
          /\ Enter("bitmap_has_any", origin)
          /\ origin' = origin
          /\ saved' = result
       \/ /\ fn = "sub_bitmap"
          /\ Len(columns) = 2
          /\ Enter("sub_bitmap",
                   <<columns[1], columns[2], create_const_column(Cell(INT32_MAX), Size)>>)
          /\ origin' = columns
          /\ saved' = result

Next ==
    \/ ReturnIfColumnsOnlyNull
    \/ BeginLoop
    \/ to_bitmap
    \/ bitmap_empty
    \/ bitmap_count
    \/ bitmap_hash
    \/ bitmap_or
    \/ bitmap_and
    \/ bitmap_andnot
    \/ bitmap_xor
    \/ bitmap_remove
    \/ bitmap_has_any
    \/ bitmap_to_string
    \/ bitmap_from_string
    \/ base64_to_bitmap
    \/ array_to_bitmap
    \/ sub_bitmap
    \/ Build
    \/ bitmap_to_array_count
    \/ bitmap_to_array_reserve
    \/ bitmap_to_array_fill
    \/ bitmap_to_array_build
    \/ Compose

Spec == Init /\ [][Next]_vars

----------------------------------------------------------------------------
(* Properties *)

InRow(k, i) == columns[k].rows[i]

OutRow(i) == result.rows[i]

Finished(f) == fn = f /\ pc = "done"

\* C1: bitmap_or, bitmap_and, bitmap_xor, bitmap_andnot and bitmap_remove over
\* two columns of n rows return n rows; if either input column is entirely
\* null every output row is null; otherwise output row i is null exactly when
\* the left or the right input is null at row i.
C1_NullPropagation ==
    (pc = "done" /\ fn \in BinaryFunctions) =>
        /\ ColSize(result) = Size
        /\ ColSize(columns[2]) = Size
        /\ ColumnsOnlyNull(columns) => \A i \in 1..Size : OutRow(i).null
        /\ ~ColumnsOnlyNull(columns) =>
               \A i \in 1..Size :
                   OutRow(i).null <=> (InRow(1, i).null \/ InRow(2, i).null)

\* a finished bitmap_xor over full-length columns with a row null on one side
\* only and a row null on neither side
C1_Witness ==
    /\ Finished("bitmap_xor")
    /\ Size = MaxRows
    /\ ~ColumnsOnlyNull(columns)
    /\ \E i \in 1..Size :
           InRow(1, i).null /\ ~InRow(2, i).null /\ OutRow(i).null
    /\ \E i \in 1..Size :
           ~InRow(1, i).null /\ ~InRow(2, i).null /\ ~OutRow(i).null

\* the reference set operation of each binary function on a bitmap a and the
\* right operand b (for bitmap_remove b is the integer v)
Reference(f, a, b) ==
    CASE f = "bitmap_or" -> a \cup b
      [] f = "bitmap_and" -> a \cap b
      [] f = "bitmap_xor" -> (a \cup b) \ (a \cap b)
      [] f = "bitmap_andnot" -> a \ b
      [] f = "bitmap_remove" -> a \ {b}

\* C2: for every row where both inputs are non-null the binary functions give
\* the reference set operation: bitmap_or the union, bitmap_and the
\* intersection, bitmap_xor the symmetric difference, bitmap_andnot the
\* difference, bitmap_remove a \ {v}; so the cardinality of bitmap_and is at
\* most that of either operand and that of bitmap_or at least that of either.
C2_SetAlgebra ==
    (pc = "done" /\ fn \in BinaryFunctions) =>
        \A i \in 1..Size :
            (~InRow(1, i).null /\ ~InRow(2, i).null) =>
                /\ ~OutRow(i).null
                /\ OutRow(i).val = Reference(fn, InRow(1, i).val, InRow(2, i).val)
                /\ fn = "bitmap_and" =>
                       /\ Cardinality(OutRow(i).val) <= Cardinality(InRow(1, i).val)
                       /\ Cardinality(OutRow(i).val) <= Cardinality(InRow(2, i).val)
                /\ fn = "bitmap_or" =>
                       /\ Cardinality(OutRow(i).val) >= Cardinality(InRow(1, i).val)
                       /\ Cardinality(OutRow(i).val) >= Cardinality(InRow(2, i).val)

\* The other four functions do compute their reference operation, and
\* bitmap_remove removes the member that v converts to as a uint64_t.
SetAlgebraModuloConversion ==
    (pc = "done" /\ fn \in BinaryFunctions) =>
        \A i \in 1..Size :
            (~InRow(1, i).null /\ ~InRow(2, i).null) =>
                /\ ~OutRow(i).null
                /\ OutRow(i).val =
                       IF fn = "bitmap_remove"
                       THEN InRow(1, i).val \ {ToUint64(InRow(2, i).val)}
                       ELSE Reference(fn, InRow(1, i).val, InRow(2, i).val)

\* the non-null rows of a column of bitmaps
NonNullRows(c) == {i \in 1..ColSize(c) : ~c.rows[i].null}

\* some non-null row of the column holds more members than the configured limit
SomeRowOverLimit(c) ==
    \E i \in NonNullRows(c) :
        Cardinality(c.rows[i].val) > max_length_for_bitmap_function

RECURSIVE SumCardinality(_, _)
SumCardinality(c, n) ==
    IF n = 0 THEN 0
    ELSE SumCardinality(c, n - 1)
         + (IF c.rows[n].null THEN 0 ELSE Cardinality(c.rows[n].val))

C4_ToStringFatal ==
    fn = "bitmap_to_string" =>
        /\ SomeRowOverLimit(columns[1]) => (pc # "done" /\ result.kind = "none")
        /\ pc = "fatal" => SomeRowOverLimit(columns[1])
        /\ ~SomeRowOverLimit(columns[1]) => pc # "fatal"
        /\ pc = "done" => ColSize(result) = Size

\* bitmap_to_string died at a row after stringifying an earlier row
C4_Witness ==
    /\ fn = "bitmap_to_string"
    /\ pc = "fatal"
    /\ row > 1
    /\ \E i \in 1..(row - 1) : ~builder[i].null
    /\ result.kind = "none"

\* the text is a base-10 numeral
IsDecimal(text) == text # <<>> /\ \A k \in 1..Len(text) : IsDigit(text[k])

\* the number a base-10 numeral denotes
RECURSIVE DecimalValue(_)
DecimalValue(text) ==
    IF text = <<>> THEN 0
    ELSE 10 * DecimalValue(SubSeq(text, 1, Len(text) - 1)) + DigitVal(text[Len(text)])

\* the text denotes an unsigned 64-bit integer in base 10
IsUint64Text(text) == IsDecimal(text) /\ DecimalValue(text) <= UINT64_MAX

\* C5: to_bitmap never aborts the batch and returns as many rows as it was
\* given; a null input row gives a null row; a text that is a base-10 unsigned
\* 64-bit integer v gives a non-null bitmap holding exactly v; any other text
\* gives a null row and a diagnostic on the function context.
C5_ToBitmapRowLocal ==
    fn = "to_bitmap" =>
        /\ pc # "fatal"
        /\ pc = "done" =>
               /\ ColSize(result) = Size
               /\ \A i \in 1..Size :
                      IF InRow(1, i).null THEN OutRow(i).null
                      ELSE IF IsUint64Text(InRow(1, i).val)
                      THEN /\ ~OutRow(i).null
                           /\ OutRow(i).val = {DecimalValue(InRow(1, i).val)}
                           /\ Cardinality(OutRow(i).val) = 1
                      ELSE /\ OutRow(i).null
                           /\ InRow(1, i).val \in ctx_error
               /\ \A t \in ctx_error :
                      \E i \in 1..Size :
                          ~InRow(1, i).null /\ InRow(1, i).val = t /\ ~IsUint64Text(t)

\* a finished to_bitmap where a row failed to parse and a later row succeeded
C5_Witness ==
    /\ Finished("to_bitmap")
    /\ \E i \in 1..Size : \E j \in 1..Size :
           /\ i < j
           /\ ~InRow(1, i).null /\ OutRow(i).null /\ InRow(1, i).val \in ctx_error
           /\ ~OutRow(j).null

\* the bytes are a whole serialized bitmap
WellFormedBitmapBytes(bytes) ==
    /\ Len(bytes) >= 1
    /\ \/ bytes[1] = 0
       \/ bytes[1] = 1 /\ Len(bytes) >= 2

\* C6: base64_to_bitmap gives a null row for every row that is null, is the
\* empty text, fails base64 decoding, or whose decoded bytes fail bitmap
\* deserialization; a non-null row only when decoding and deserialization both
\* succeed.
C6_Base64NullOnFailure ==
    Finished("base64_to_bitmap") =>
        \A i \in 1..Size :
            OutRow(i).null <=>
                \/ InRow(1, i).null
                \/ InRow(1, i).val = <<>>
                \/ base64_decode2(InRow(1, i).val).res < 0
                \/ ~WellFormedBitmapBytes(base64_decode2(InRow(1, i).val).bytes)

\* C7: bitmap_from_string never gives a partial set: a non-null row whose text
\* is longer than the maximum text length, or holds a field that is no unsigned
\* 64-bit integer, gives a null row; any other non-null row gives exactly the
\* set of all its fields' values, so no value of another row.  (The fields are
\* the non-empty pieces between the commas.)
C7_FromStringAllOrNothing ==
    Finished("bitmap_from_string") =>
        /\ ColSize(result) = Size
        /\ \A i \in 1..Size :
               LET text == InRow(1, i).val
                   fields == Fields(text)
               IN  IF InRow(1, i).null THEN OutRow(i).null
                   ELSE IF \/ Len(text) > INT32_MAX
                           \/ \E k \in 1..Len(fields) : ~IsUint64Text(fields[k])
                   THEN OutRow(i).null
                   ELSE /\ ~OutRow(i).null
                        /\ OutRow(i).val =
                               {DecimalValue(fields[k]) : k \in 1..Len(fields)}

\* a finished bitmap_from_string where a row failed after a field had parsed,
\* and a later row gave a non-empty set
C7_Witness ==
    /\ Finished("bitmap_from_string")
    /\ \E i \in 1..Size : \E j \in 1..Size :
           /\ i < j
           /\ ~InRow(1, i).null /\ OutRow(i).null
           /\ Len(InRow(1, i).val) <= INT32_MAX
           /\ IsUint64Text(Fields(InRow(1, i).val)[1])
           /\ ~OutRow(j).null /\ OutRow(j).val # {}

\* the expression began with another function, whose input columns are origin
Composed == origin # <<>>

FirstRow(k, i) == origin[k].rows[i]

\* C8: for all non-null bitmaps a and b, bitmap_has_any(a, b) is true exactly
\* when bitmap_count(bitmap_and(a, b)) > 0, that is when a and b share a member.
C8_HasAnyIsNonEmptyAnd ==
    (Finished("bitmap_has_any") /\ Composed) =>
        /\ ColSize(result) = Size
        /\ ColSize(saved) = Size
        /\ \A i \in 1..Size :
               (~InRow(1, i).null /\ ~InRow(2, i).null) =>
                   /\ ~OutRow(i).null
                   /\ ~saved.rows[i].null
                   /\ OutRow(i).val <=> (saved.rows[i].val > 0)
                   /\ OutRow(i).val <=> (InRow(1, i).val \cap InRow(2, i).val # {})

\* bitmap_has_any and bitmap_count(bitmap_and) finished on the same columns,
\* with a row that shares a member and a row of two non-empty disjoint bitmaps
C8_Witness ==
    /\ Finished("bitmap_has_any")
    /\ Composed
    /\ \E i \in 1..Size :
           ~InRow(1, i).null /\ ~InRow(2, i).null /\ OutRow(i).val
    /\ \E i \in 1..Size :
           /\ ~InRow(1, i).null /\ ~InRow(2, i).null /\ ~OutRow(i).val
           /\ InRow(1, i).val # {} /\ InRow(2, i).val # {}
           /\ saved.rows[i].val = 0

\* every member of every non-null row is non-negative as an int64_t
AllMembersNonNegative(c) ==
    \A i \in NonNullRows(c) : \A m \in c.rows[i].val : ToInt64(m) >= 0

\* C9: for a column of bitmaps whose members are all non-negative as signed
\* 64-bit integers and whose cardinalities are within the configured maximum,
\* array_to_bitmap(bitmap_to_array(col)) gives, row by row, the original
\* bitmap, and a null row for each null row.
C9_ArrayRoundTrip ==
    (Finished("array_to_bitmap") /\ Composed /\ AllMembersNonNegative(origin[1])) =>
        /\ ColSize(result) = ColSize(origin[1])
        /\ \A i \in 1..ColSize(origin[1]) :
               /\ OutRow(i).null <=> FirstRow(1, i).null
               /\ ~FirstRow(1, i).null => OutRow(i).val = FirstRow(1, i).val

\* a finished round trip through the array over a column with a null row and a
\* row of exactly the maximum cardinality
C9_Witness ==
    /\ Finished("array_to_bitmap")
    /\ Composed
    /\ AllMembersNonNegative(origin[1])
    /\ \E i \in 1..ColSize(origin[1]) : FirstRow(1, i).null /\ OutRow(i).null
    /\ \E i \in 1..ColSize(origin[1]) :
           /\ ~FirstRow(1, i).null
           /\ Cardinality(FirstRow(1, i).val) = max_length_for_bitmap_function
           /\ OutRow(i).val = FirstRow(1, i).val

\* C10: for every bitmap of cardinality at most the configured maximum, the
\* empty set and a set of exactly the maximum included,
\* bitmap_from_string(bitmap_to_string(b)) is non-null and equal to b.
C10_StringRoundTrip ==
    /\ (fn = "bitmap_to_string" /\ pc = "fatal") => SomeRowOverLimit(columns[1])
    /\ (Finished("bitmap_from_string") /\ Composed) =>
           /\ ColSize(result) = ColSize(origin[1])
           /\ \A i \in NonNullRows(origin[1]) :
                  /\ Cardinality(FirstRow(1, i).val) <= max_length_for_bitmap_function
                  /\ ~OutRow(i).null
                  /\ OutRow(i).val = FirstRow(1, i).val

\* a finished round trip through the text over a column holding the empty set
\* and a set of exactly the maximum cardinality with the member UINT64_MAX
C10_Witness ==
    /\ Finished("bitmap_from_string")
    /\ Composed
    /\ \E i \in NonNullRows(origin[1]) :
           FirstRow(1, i).val = {} /\ ~OutRow(i).null /\ OutRow(i).val = {}
    /\ \E i \in NonNullRows(origin[1]) :
           /\ Cardinality(FirstRow(1, i).val) = max_length_for_bitmap_function
           /\ UINT64_MAX \in FirstRow(1, i).val
           /\ OutRow(i).val = FirstRow(1, i).val

\* the elements of row i of an array column: those between its two offsets
Slice(c, i) == {c.elements[j] : j \in (c.offsets[i] + 1)..c.offsets[i + 1]}

\* C11: array_to_bitmap gives a null row for a null input row, and for a
\* non-null array a non-null bitmap holding exactly the non-null, non-negative
\* elements found between the row's own offsets (the empty bitmap when every
\* element is skipped).
C11_ArrayToBitmapRows ==
    Finished("array_to_bitmap") =>
        /\ ColSize(result) = Size
        /\ \A i \in 1..Size :
               IF is_null(columns[1], i)
               THEN OutRow(i).null
               ELSE /\ ~OutRow(i).null
                    /\ OutRow(i).val =
                           {v \in 0..INT64_MAX :
                               \E e \in Slice(columns[1], i) : ~e.null /\ e.val = v}

\* a finished array_to_bitmap over a null row that lies over an element and a
\* row whose array has members besides a null and a negative element
C11_Witness ==
    /\ Finished("array_to_bitmap")
    /\ ~Composed
    /\ \E i \in 1..Size :
           is_null(columns[1], i) /\ Slice(columns[1], i) # {} /\ OutRow(i).null
    /\ \E i \in 1..Size :
           /\ ~is_null(columns[1], i)
           /\ \E e \in Slice(columns[1], i) : e.null
           /\ \E e \in Slice(columns[1], i) : ~e.null /\ e.val < 0
           /\ OutRow(i).val = {0, 1}

\* the number of members of b below m
Rank(b, m) == Cardinality({x \in b : x < m})

\* the members of b of rank start, start + 1, ..., start + len - 1, where start
\* is off, or the cardinality less |off| for a negative off
Window(b, off, len) ==
    LET start == IF off < 0 THEN Cardinality(b) + off ELSE off
    IN  {m \in b : start <= Rank(b, m) /\ Rank(b, m) < start + len}

\* the length of row i: the third column, or INT32_MAX when it is omitted
LenRow(i) == IF Len(columns) > 2 THEN InRow(3, i) ELSE Cell(INT32_MAX)

\* C12: sub_bitmap gives a null row when the bitmap, the offset or the length
\* is null, the length is not positive, the bitmap is empty, the offset is
\* INT_MIN, or no member lies in the range; no output row is a non-null empty
\* bitmap.
C12_SubBitmapNull ==
    Finished("sub_bitmap") =>
        /\ ColSize(result) = Size
        /\ \A i \in 1..Size :
               /\ (InRow(1, i).null \/ InRow(2, i).null \/ LenRow(i).null) => OutRow(i).null
               /\ (/\ ~InRow(1, i).null /\ ~InRow(2, i).null /\ ~LenRow(i).null
                   /\ \/ LenRow(i).val <= 0
                      \/ InRow(1, i).val = {}
                      \/ InRow(2, i).val = INT_MIN
                      \/ Window(InRow(1, i).val, InRow(2, i).val, LenRow(i).val) = {})
                      => OutRow(i).null
               /\ ~OutRow(i).null => OutRow(i).val # {}

\* a finished sub_bitmap with a row that is null because its offset lies past
\* the last member of a non-empty bitmap, and a row that is not null
C12_Witness ==
    /\ Finished("sub_bitmap")
    /\ \E i \in 1..Size :
           /\ ~InRow(1, i).null /\ ~InRow(2, i).null /\ ~LenRow(i).null
           /\ LenRow(i).val > 0 /\ InRow(1, i).val # {} /\ InRow(2, i).val # INT_MIN
           /\ Window(InRow(1, i).val, InRow(2, i).val, LenRow(i).val) = {}
           /\ OutRow(i).null
    /\ \E i \in 1..Size : ~OutRow(i).null /\ OutRow(i).val # {}

C14_CountAndHashNeverNull ==
    /\ Finished("bitmap_count") =>
           /\ ColSize(result) = Size
           /\ \A i \in 1..Size :
                  /\ ~OutRow(i).null
                  /\ OutRow(i).val = IF InRow(1, i).null THEN 0
                                     ELSE Cardinality(InRow(1, i).val)
    /\ Finished("bitmap_hash") =>
           /\ ColSize(result) = Size
           /\ \A i \in 1..Size :
                  /\ ~OutRow(i).null
                  /\ InRow(1, i).null => OutRow(i).val = {}
                  /\ ~InRow(1, i).null => Cardinality(OutRow(i).val) = 1

\* bitmap_count(bitmap_hash(c)) finished over an entirely null column c, and
\* so bitmap_hash before it: every count is 0 and no row of either is null
C14_Witness ==
    /\ Finished("bitmap_count")
    /\ Composed
    /\ ColSize(origin[1]) = MaxRows
    /\ \A i \in 1..Size :
           /\ FirstRow(1, i).null
           /\ InRow(1, i) = Cell({})
           /\ OutRow(i) = Cell(0)

\* the scratch buffer of base64_to_bitmap and its capacity after the first n
\* rows of a column: neither depends on what lies in unwritten memory
RECURSIVE ScratchAfter(_, _)
ScratchAfter(rows, n) ==
    IF n = 0 THEN [p |-> <<>>, last_len |-> 0]
    ELSE LET s == ScratchAfter(rows, n - 1)
             r == base64_to_bitmap_row(rows[n], s.p, s.last_len, 0)
         IN  [p |-> r.p, last_len |-> r.last_len]

\* the bits vector of bitmap_from_string after the first n rows of a column
RECURSIVE BitsAfter(_, _)
BitsAfter(rows, n) ==
    IF n = 0 THEN <<>>
    ELSE bitmap_from_string_row(rows[n], BitsAfter(rows, n - 1)).bits

\* the functions that give one output cell per input row and never end in a
\* fatal error
RowFunctions == BuilderFunctions \ {"bitmap_to_string"}

\* the rows that function f can give at row i when it is run on the batch cols
RowOutputs(f, cols, i) ==
    IF f \in OnlyNullGuarded /\ ColumnsOnlyNull(cols) THEN {NullBitmap}
    ELSE CASE f = "to_bitmap" -> {to_bitmap_row(cols[1].rows[i]).cell}
           [] f = "bitmap_hash" -> {bitmap_hash_row(cols[1].rows[i])}
           [] f = "bitmap_count" -> {bitmap_count_row(cols[1].rows[i])}
           [] f = "bitmap_or" -> {bitmap_or_row(cols[1].rows[i], cols[2].rows[i])}
           [] f = "bitmap_and" -> {bitmap_and_row(cols[1].rows[i], cols[2].rows[i])}
           [] f = "bitmap_andnot" -> {bitmap_andnot_row(cols[1].rows[i], cols[2].rows[i])}
           [] f = "bitmap_xor" -> {bitmap_xor_row(cols[1].rows[i], cols[2].rows[i])}
           [] f = "bitmap_remove" -> {bitmap_remove_row(cols[1].rows[i], cols[2].rows[i])}
           [] f = "bitmap_has_any" -> {bitmap_has_any_row(cols[1].rows[i], cols[2].rows[i])}
           [] f = "sub_bitmap" ->
                  {sub_bitmap_row(cols[1].rows[i], cols[2].rows[i], len_column(cols).rows[i])}
           [] f = "array_to_bitmap" -> {array_to_bitmap_row(cols[1], i)}
           [] f = "bitmap_from_string" ->
                  {bitmap_from_string_row(cols[1].rows[i], BitsAfter(cols[1].rows, i - 1)).cell}
           [] f = "base64_to_bitmap" ->
                  {base64_to_bitmap_row(cols[1].rows[i], ScratchAfter(cols[1].rows, i - 1).p,
                                        ScratchAfter(cols[1].rows, i - 1).last_len,
                                        garbage).cell : garbage \in Bytes}

\* the batches each function may be given
Batches == [f \in EntryFunctions |-> Inputs(f)]

\* the two batches have the same input at row i
AgreeAt(cols, other, i) ==
    /\ Len(other) = Len(cols)
    /\ i <= ColSize(other[1])
    /\ \A k \in 1..Len(cols) :
           IF cols[k].kind = "array"
           THEN /\ is_null(other[k], i) = is_null(cols[k], i)
                /\ SubSeq(other[k].elements, other[k].offsets[i] + 1, other[k].offsets[i + 1])
                     = SubSeq(cols[k].elements, cols[k].offsets[i] + 1, cols[k].offsets[i + 1])
           ELSE other[k].rows[i] = cols[k].rows[i]

\* C15: output row i depends on input row i alone: the row a finished
\* invocation gives at i is one the function can give at i on any other batch
\* with the same row i, whatever the other rows of the two batches are; so
\* neither the scratch buffer of base64_to_bitmap nor the bits vector of
\* bitmap_from_string carries an earlier row into a later one.
C15_RowIndependence ==
    (pc = "done" /\ fn \in RowFunctions /\ ~Composed) =>
        \A i \in 1..Size :
            \A other \in Batches[fn] :
                AgreeAt(columns, other, i) => OutRow(i) \in RowOutputs(fn, other, i)

\* what does hold of C15: every function but base64_to_bitmap gives at row i the
\* row it gives on any other batch with the same row i
RowIndependenceBesidesBase64 ==
    (pc = "done" /\ fn \in RowFunctions \ {"base64_to_bitmap"} /\ ~Composed) =>
        \A i \in 1..Size :
            \A other \in Batches[fn] :
                AgreeAt(columns, other, i) => OutRow(i) \in RowOutputs(fn, other, i)

\* C16: whenever every input column of an invocation is a constant column, the
\* returned column is flagged constant, for bitmap_to_array as for the
\* functions that build their output with a ColumnBuilder; and bitmap_empty
\* returns a constant column of one non-null empty bitmap.
C16_ConstantPreserved ==
    /\ (pc = "done" /\ fn # "bitmap_empty" /\ is_all_const(columns)) => is_constant(result)
    /\ Finished("bitmap_empty") =>
           /\ is_constant(result)
           /\ \A i \in 1..ColSize(result) : OutRow(i) = Cell({})

\* what does hold of C16: every function but bitmap_to_array returns a column
\* flagged constant when all its input columns are, and bitmap_to_array does
\* when its constant input is null
ConstantPreservedBesidesToArray ==
    /\ (/\ pc = "done" /\ fn # "bitmap_empty" /\ is_all_const(columns)
        /\ fn = "bitmap_to_array" => only_null(columns[1]))
           => is_constant(result)
    /\ Finished("bitmap_empty") =>
           /\ is_constant(result)
           /\ \A i \in 1..ColSize(result) : OutRow(i) = Cell({})

\* what holds of the offsets and the null rows of a finished bitmap_to_array:
\* n + 1 offsets that begin at 0 and never decrease, the last of them the
\* number of elements written and the number counted; an empty slice and a
\* null output row for a null input row; no null mask without a null row; and
\* the returned array column is made of these offsets and elements
ArrayShape ==
    /\ Len(array_offsets) = Size + 1
    /\ array_offsets[1] = 0
    /\ \A i \in 1..Size : array_offsets[i] <= array_offsets[i + 1]
    /\ array_offsets[Size + 1] = Len(array_elems)
    /\ array_offsets[Size + 1] = data_size
    /\ \A i \in 1..Size :
           is_null(columns[1], i) =>
               /\ array_offsets[i] = array_offsets[i + 1]
               /\ is_null(result, i)
    /\ ~has_null(columns[1]) => result.kind = "array" /\ ~result.has_mask
    /\ result.kind = "array" =>
           /\ result.offsets = array_offsets
           /\ result.elements = ElementsColumn(array_elems)
           /\ \A i \in 1..Size : ~is_null(columns[1], i) => ~is_null(result, i)

\* the element at place k (from 1) of the slice of row i
SliceAt(i, k) == array_elems[array_offsets[i] + k]

\* C17 as stated: a finished bitmap_to_array has the shape above, and the slice
\* of a non-null row i holds exactly the members of bitmap i in ascending
\* order.
C17_ArraySlicesAreMembers ==
    Finished("bitmap_to_array") =>
        /\ ArrayShape
        /\ \A i \in 1..Size :
               ~is_null(columns[1], i) =>
                   /\ array_offsets[i + 1] - array_offsets[i] = Cardinality(InRow(1, i).val)
                   /\ \A k \in 1..Cardinality(InRow(1, i).val) :
                          /\ SliceAt(i, k) \in InRow(1, i).val
                          /\ Rank(InRow(1, i).val, SliceAt(i, k)) = k - 1

\* C17: a finished bitmap_to_array has the shape above, and the slice of a
\* non-null row i holds the members of bitmap i in ascending order of the
\* members, each stored as a signed 64-bit integer, so that a member above
\* INT64_MAX stands in the slice as a negative number.
C17_ArraySlicesAreMembersAsInt64 ==
    Finished("bitmap_to_array") =>
        /\ ArrayShape
        /\ \A i \in 1..Size :
               ~is_null(columns[1], i) =>
                   /\ array_offsets[i + 1] - array_offsets[i] = Cardinality(InRow(1, i).val)
                   /\ \A k \in 1..Cardinality(InRow(1, i).val) :
                          \E member \in InRow(1, i).val :
                              /\ Rank(InRow(1, i).val, member) = k - 1
                              /\ SliceAt(i, k) = ToInt64(member)

\* a finished bitmap_to_array over a null row and a row with a member above
\* INT64_MAX: the array column has a null mask and the slice ends in -1
C17_Witness ==
    /\ Finished("bitmap_to_array")
    /\ result.kind = "array"
    /\ result.has_mask
    /\ \E i \in 1..Size : is_null(columns[1], i) /\ is_null(result, i)
    /\ \E i \in 1..Size :
           /\ InRow(1, i) = Cell({0, UINT64_MAX})
           /\ SliceAt(i, 1) = 0
           /\ SliceAt(i, 2) = 0 - 1

====
